---- MODULE Spec2Model ----
(***************************************************************************)
(* Model of voicely's main.py: a FastAPI application with four routes      *)
(* (home, generate_speech, success_page, download_file) around one         *)
(* synthesis engine call that writes the single file outputs/output.wav.   *)
(*                                                                         *)
(* All handlers are `async def` and contain no await, so a handler body    *)
(* occupies the event loop from its first line to its return.  The         *)
(* synthesis call tts.tts_to_file is a blocking call made inside such a    *)
(* body: while it runs (variable loop # 0) no handler body starts.         *)
(* download_file returns FileResponse(path): the handler only checks that  *)
(* the file exists; the bytes of the file are read from the path after the *)
(* handler has returned, by the file I/O of the response, which is not a   *)
(* handler body and is not ordered with respect to the blocking call.      *)
(***************************************************************************)
EXTENDS Integers, Sequences, FiniteSets, TLC

\* ---------------------------------------------------------------- bounds
NumReq == 3
Req == 1..NumReq

\* the (text, language) pairs submitted to /generate: two supported
\* languages with different texts, and one unsupported language
GenerateInputs == {<<"t1", "hi">>, <<"t2", "fr">>, <<"t1", "de">>}
Files == {"output.wav", "nonexistent.wav", ".."}

\* ------------------------------------------------------- program constants
output_dir == "outputs"
supported_languages == <<"hi", "en", "es", "fr">>
sample_wav == "sample.wav"

\* --------------------------------------------------------- file contents
Absent == [kind |-> "absent", writer |-> 0, lang |-> "", text |-> "", full |-> FALSE]
Dir == [kind |-> "dir", writer |-> 0, lang |-> "", text |-> "", full |-> FALSE]
OldFile == [kind |-> "file", writer |-> 0, lang |-> "old", text |-> "old", full |-> TRUE]
Audio(w, l, t, f) == [kind |-> "file", writer |-> w, lang |-> l, text |-> t, full |-> f]

\* ------------------------------------------------------------- responses
NoUrl == [path |-> <<>>, filename |-> ""]
NoResp == [type |-> "none", status |-> 0, body |-> "", url |-> NoUrl, media |-> "", file |-> ""]
Html(b) == [type |-> "html", status |-> 200, body |-> b, url |-> NoUrl, media |-> "text/html", file |-> ""]
Redirect(u, s) == [type |-> "redirect", status |-> s, body |-> "", url |-> u, media |-> "", file |-> ""]
FileResp(p, m) == [type |-> "file", status |-> 200, body |-> "", url |-> NoUrl, media |-> m, file |-> p]
NotFound404 == [type |-> "html", status |-> 404, body |-> "Not Found", url |-> NoUrl, media |-> "application/json", file |-> ""]

VARIABLES sampleExists, server, fs, req, pc, resp, loop, calls, seen, served, readWhile, outcome

vars == <<sampleExists, server, fs, req, pc, resp, loop, calls, seen, served, readWhile, outcome>>

\* ------------------------------------------------------------- requests
NoReq == [method |-> "", path |-> <<>>, text |-> "", language |-> "", filename |-> "", follows |-> 0]
Get(p, f, g) == [method |-> "GET", path |-> p, text |-> "", language |-> "", filename |-> f, follows |-> g]
Post(p, t, l) == [method |-> "POST", path |-> p, text |-> t, language |-> l, filename |-> "", follows |-> 0]

\* the route table built by the decorators
Route(method, path) ==
    IF method = "GET" /\ path = <<>> THEN "home"
    ELSE IF method = "POST" /\ path = <<"generate">> THEN "generate_speech"
    ELSE IF method = "GET" /\ path = <<"success">> THEN "success_page"
    ELSE IF method = "GET" /\ Len(path) = 2 /\ path[1] = "download" THEN "download_file"
    ELSE "none"

\* variant: the check for sample.wav is skipped
StartupOk_unchecked(exists) == TRUE

\* module initialisation, lines 36-38: raise unless sample.wav is a file
StartupOk(exists) == exists

\* variant: the language is not validated
IsSupported_any(language) == TRUE

\* language in supported_languages
IsSupported(language) == \E i \in 1..Len(supported_languages) : supported_languages[i] = language

\* variant: one output file per language instead of the single slot
OutputFile_perLanguage(language) == IF language = "fr" THEN "nonexistent.wav" ELSE "output.wav"

\* variant: the engine is given another path than the one served
OutputFile_elsewhere(language) == "nonexistent.wav"

\* output_path = f"{output_dir}/output.wav"
OutputFile(language) == "output.wav"

\* variant: the engine is called with a fixed language
SynthArgs_fixedLanguage(text, language) ==
    [text |-> text, speaker_wav |-> sample_wav, language |-> "hi",
     file_path |-> <<output_dir, "output.wav">>]

\* the arguments of tts.tts_to_file
SynthArgs(text, language) ==
    [text |-> text, speaker_wav |-> sample_wav, language |-> language,
     file_path |-> <<output_dir, OutputFile(language)>>]

UnsupportedPage == Html("Error: Unsupported language")
\* variant: the exception escapes and the framework answers 500
ErrorPage_propagated == [type |-> "html", status |-> 500, body |-> "Internal Server Error", url |-> NoUrl, media |-> "text/plain", file |-> ""]

\* except Exception as e: return HTMLResponse(f"<h3>Error: {e}</h3>")
ErrorPage == Html("Error: e")
\* variant: RedirectResponse with its default status code
SuccessRedirect_default == Redirect([path |-> <<"success">>, filename |-> "output.wav"], 307)

\* return RedirectResponse(url="/success?filename=output.wav", status_code=303)
SuccessRedirect == Redirect([path |-> <<"success">>, filename |-> "output.wav"], 303)

\* download_template.replace("{filename}", filename): the page's download link
SuccessLink(filename) == <<"download", filename>>

\* variant: os.path.exists
IsFile_exists(entry) == entry.kind # "absent"

\* os.path.isfile
IsFile(entry) == entry.kind = "file"

\* the response download_file returns for what it found at the path
DownloadResponse(filename, entry) ==
    IF IsFile(entry) THEN FileResp(<<output_dir, filename>>, "audio/wav")
    ELSE Html("File not found!")

\* ------------------------------------------------------------------ Init
Init ==
    /\ sampleExists \in BOOLEAN
    /\ server = "boot"
    /\ fs \in {[f \in Files |-> IF f = ".." THEN Dir ELSE IF f = "output.wav" THEN o ELSE Absent] :
                 o \in {Absent, OldFile}}
    /\ req = [r \in Req |-> NoReq]
    /\ pc = [r \in Req |-> "idle"]
    /\ resp = [r \in Req |-> NoResp]
    /\ loop = 0
    /\ calls = [r \in Req |-> <<>>]
    /\ seen = [r \in Req |-> Absent]
    /\ served = [r \in Req |-> Absent]
    /\ readWhile = [r \in Req |-> 0]
    /\ outcome = [r \in Req |-> "none"]

\* --------------------------------------------------------------- actions
Startup ==
    /\ server = "boot"
    /\ server' = IF StartupOk(sampleExists) THEN "ready" ELSE "failed"
    /\ UNCHANGED <<sampleExists, fs, req, pc, resp, loop, calls, seen, served, readWhile, outcome>>

\* generate requests that have already been answered with the redirect
Succeeded == {g \in Req : pc[g] = "done" /\ resp[g].type = "redirect"}

Inputs ==
    {Get(<<>>, "", 0), Get(<<"health">>, "", 0), Get(<<"success">>, "output.wav", 0)}
    \cup {Post(<<"generate">>, g[1], g[2]) : g \in GenerateInputs}
    \cup {Get(<<"download", f>>, f, g) : f \in Files, g \in {0} \cup Succeeded}

\* a handler body may start on request q: the server is up (the routes
\* exist), the event loop is free, and the route table selects the handler
CanRun(r, q, handler) ==
    /\ server = "ready"
    /\ loop = 0
    /\ pc[r] = "idle"
    /\ r > 1 => pc[r - 1] # "idle"
    /\ q.follows # 0 => q.filename = "output.wav"
    /\ Route(q.method, q.path) = handler
    /\ req' = [req EXCEPT ![r] = q]

Finish(r, response) ==
    /\ resp' = [resp EXCEPT ![r] = response]
    /\ pc' = [pc EXCEPT ![r] = "done"]

home(r, q) ==
    /\ CanRun(r, q, "home")
    /\ Finish(r, Html("form"))
    /\ UNCHANGED <<sampleExists, server, fs, loop, calls, seen, served, readWhile, outcome>>

\* no route matches: the framework answers 404
NoRoute(r, q) ==
    /\ CanRun(r, q, "none")
    /\ Finish(r, NotFound404)
    /\ UNCHANGED <<sampleExists, server, fs, loop, calls, seen, served, readWhile, outcome>>

success_page(r, q) ==
    /\ CanRun(r, q, "success_page")
    /\ Finish(r, [Html("download page") EXCEPT !.url = [path |-> SuccessLink(q.filename), filename |-> ""]])
    /\ UNCHANGED <<sampleExists, server, fs, loop, calls, seen, served, readWhile, outcome>>

\* generate_speech up to the synthesis call
generate_speech(r, q) ==
    /\ CanRun(r, q, "generate_speech")
    /\ IF ~IsSupported(q.language)
       THEN /\ Finish(r, UnsupportedPage)
            /\ UNCHANGED <<loop, calls>>
       ELSE /\ pc' = [pc EXCEPT ![r] = "synth"]
            /\ loop' = r
            /\ calls' = [calls EXCEPT ![r] = Append(@, SynthArgs(q.text, q.language))]
            /\ UNCHANGED resp
    /\ UNCHANGED <<sampleExists, server, fs, seen, served, readWhile, outcome>>

\* variant: the engine leaves the old content in place until it has finished
WriteBegin_buffered(r, args, old) == old

\* what the engine leaves at file_path once it has opened it for writing
WriteBegin(r, args, old) == Audio(r, args.language, args.text, FALSE)

\* the engine opens file_path and starts writing the samples
SynthWrite(r) ==
    /\ pc[r] = "synth"
    /\ loop = r
    /\ LET args == calls[r][Len(calls[r])]
           f == args.file_path[2]
       IN fs' = [fs EXCEPT ![f] = WriteBegin(r, args, @)]
    /\ pc' = [pc EXCEPT ![r] = "writing"]
    /\ UNCHANGED <<sampleExists, server, req, resp, loop, calls, seen, served, readWhile, outcome>>

\* tts_to_file returns; generate_speech answers with the redirect
SynthReturn(r) ==
    /\ pc[r] = "writing"
    /\ loop = r
    /\ LET args == calls[r][Len(calls[r])]
           f == args.file_path[2]
       IN fs' = [fs EXCEPT ![f] = Audio(r, args.language, args.text, TRUE)]
    /\ Finish(r, SuccessRedirect)
    /\ outcome' = [outcome EXCEPT ![r] = "returned"]
    /\ loop' = 0
    /\ UNCHANGED <<sampleExists, server, req, calls, seen, served, readWhile>>

\* tts_to_file raises, before or while writing; except Exception answers
SynthRaise(r) ==
    /\ pc[r] \in {"synth", "writing"}
    /\ loop = r
    /\ Finish(r, ErrorPage)
    /\ outcome' = [outcome EXCEPT ![r] = "raised"]
    /\ loop' = 0
    /\ UNCHANGED <<sampleExists, server, fs, req, calls, seen, served, readWhile>>

\* download_file: the existence check and the returned response
download_file(r, q) ==
    /\ CanRun(r, q, "download_file")
    /\ LET filename == q.path[2]
           entry == fs[filename]
       IN /\ seen' = [seen EXCEPT ![r] = entry]
          /\ resp' = [resp EXCEPT ![r] = DownloadResponse(filename, entry)]
          /\ pc' = [pc EXCEPT ![r] = IF DownloadResponse(filename, entry).type = "file" THEN "sending" ELSE "done"]
    /\ UNCHANGED <<sampleExists, server, fs, loop, calls, served, readWhile, outcome>>

\* the FileResponse reads the bytes at its path and sends them
SendFile(r) ==
    /\ pc[r] = "sending"
    /\ served' = [served EXCEPT ![r] = fs[resp[r].file[2]]]
    /\ readWhile' = [readWhile EXCEPT ![r] = IF loop # 0 /\ pc[loop] = "writing" THEN loop ELSE 0]
    /\ pc' = [pc EXCEPT ![r] = "done"]
    /\ UNCHANGED <<sampleExists, server, fs, req, resp, loop, calls, seen, outcome>>

Next ==
    \/ Startup
    \/ \E r \in Req : \E q \in Inputs : home(r, q)
    \/ \E r \in Req : \E q \in Inputs : NoRoute(r, q)
    \/ \E r \in Req : \E q \in Inputs : success_page(r, q)
    \/ \E r \in Req : \E q \in Inputs : generate_speech(r, q)
    \/ \E r \in Req : SynthWrite(r)
    \/ \E r \in Req : SynthReturn(r)
    \/ \E r \in Req : SynthRaise(r)
    \/ \E r \in Req : \E q \in Inputs : download_file(r, q)
    \/ \E r \in Req : SendFile(r)

Spec == Init /\ [][Next]_vars

\* ---------------------------------------------------------------- claims
\* the handler the route table selected for request r
Handler(r) == Route(req[r].method, req[r].path)
HandlerNext(r) == Route(req'[r].method, req'[r].path)

Started(r) == pc[r] # "idle"
Done(r) == pc[r] = "done"

\* C1: a POST /generate whose language is not hi, en, es or fr is answered
\* with the "Unsupported language" page in the step that handles it, that
\* step leaves every file as it was, and the request never calls the
\* engine and never writes a file.
C1_UnsupportedLanguage ==
    [][\A r \in Req :
         (pc'[r] # "idle" /\ HandlerNext(r) = "generate_speech"
            /\ req'[r].language \notin {"hi", "en", "es", "fr"})
         => /\ pc'[r] = "done"
            /\ resp'[r].type = "html"
            /\ resp'[r].body = "Error: Unsupported language"
            /\ calls'[r] = <<>>
            /\ \A f \in Files : fs'[f].writer # r
            /\ pc[r] = "idle" => fs' = fs]_vars

C1_Witness ==
    \E r \in Req :
        /\ Done(r) /\ Handler(r) = "generate_speech" /\ req[r].language = "de"
        /\ resp[r].body = "Error: Unsupported language"
        /\ fs["output.wav"] = OldFile

\* C2: once a POST /generate with a supported language has been answered
\* with the redirect, outputs/output.wav is a file, and a GET
\* /download/output.wav issued after that answer gets the file response
\* with media type audio/wav, not the "File not found" page.
C2_DownloadAfterSuccess ==
    /\ (\E g \in Req : Done(g) /\ Handler(g) = "generate_speech" /\ outcome[g] = "returned")
          => fs["output.wav"].kind = "file"
    /\ \A d \in Req :
         (Started(d) /\ Handler(d) = "download_file" /\ req[d].follows # 0)
         => /\ outcome[req[d].follows] = "returned"
            /\ resp[d].type = "file"
            /\ resp[d].media = "audio/wav"
            /\ resp[d].file = <<"outputs", "output.wav">>

C2_Witness ==
    \E d \in Req :
        /\ Done(d) /\ Handler(d) = "download_file" /\ req[d].follows # 0
        /\ resp[d].type = "file"
        /\ served[d].kind = "file"

\* C3: a client that downloads output.wav after its own generate succeeded
\* receives either the complete audio of its own request or audio that a
\* different generate request wrote (in that request's language): nothing
\* ties the download to the request it follows.
C3_WrongLanguageAudio ==
    \A d \in Req :
        (Done(d) /\ Handler(d) = "download_file" /\ req[d].follows # 0)
        => LET g == req[d].follows
               a == served[d]
           IN \/ a = Audio(g, req[g].language, req[g].text, TRUE)
              \/ /\ a.kind = "file" /\ a.writer \in Req \ {g, d}
                 /\ Handler(a.writer) = "generate_speech"
                 /\ pc[a.writer] \in {"writing", "done"}
                 /\ a.lang = req[a.writer].language
                 /\ a.text = req[a.writer].text

\* client A's generate (L1) succeeded, client B's generate (L2 # L1)
\* succeeded after it, and A's download returned B's audio
C3_Witness ==
    \E d \in Req : \E b \in Req :
        /\ Done(d) /\ Handler(d) = "download_file" /\ req[d].follows # 0
        /\ b # req[d].follows
        /\ outcome[req[d].follows] = "returned" /\ outcome[b] = "returned"
        /\ req[b].language # req[req[d].follows].language
        /\ served[d] = Audio(b, req[b].language, req[b].text, TRUE)

C5_ExceptionsCaught ==
    \A r \in Req :
        (Done(r) /\ Handler(r) = "generate_speech")
        => /\ \/ resp[r].type = "html" /\ resp[r].status = 200 /\ resp[r].body = "Error: Unsupported language"
              \/ resp[r].type = "redirect" /\ resp[r].status = 303
              \/ resp[r].type = "html" /\ resp[r].status = 200 /\ resp[r].body = "Error: e"
           /\ outcome[r] = "raised" => resp[r].body = "Error: e"
           /\ resp[r].type = "redirect" => outcome[r] = "returned"
           /\ outcome[r] = "none" => resp[r].body = "Error: Unsupported language"

C5_Witness ==
    \E r \in Req :
        /\ Done(r) /\ Handler(r) = "generate_speech" /\ outcome[r] = "raised"
        /\ resp[r].body = "Error: e"
        /\ \E f \in Files : fs[f].writer = r

\* C6: download_file answers with the file response (audio/wav) when
\* outputs/<filename> is a regular file at the moment of the check, and
\* otherwise with the "File not found" page with status 200.
C6_DownloadDecision ==
    [][\A r \in Req :
         (pc[r] = "idle" /\ pc'[r] # "idle" /\ HandlerNext(r) = "download_file")
         => LET f == req'[r].path[2]
            IN IF fs[f].kind = "file"
               THEN /\ resp'[r].type = "file" /\ resp'[r].media = "audio/wav"
                    /\ resp'[r].file = <<"outputs", f>>
               ELSE /\ resp'[r].type = "html" /\ resp'[r].status = 200
                    /\ resp'[r].body = "File not found!"
                    /\ pc'[r] = "done"]_vars

C6_Witness ==
    /\ \E r \in Req : /\ Done(r) /\ Handler(r) = "download_file"
                      /\ req[r].path[2] = "nonexistent.wav"
                      /\ resp[r].body = "File not found!" /\ resp[r].status = 200
    /\ \E r \in Req : /\ Done(r) /\ Handler(r) = "download_file"
                      /\ req[r].path[2] = ".."
                      /\ resp[r].body = "File not found!"

\* C7: when sample.wav is absent at startup the server never becomes
\* ready and no request is ever handled.
C7_MissingSampleFatal ==
    ~sampleExists
    => /\ server # "ready"
       /\ \A r \in Req : pc[r] = "idle" /\ resp[r] = NoResp
       /\ fs["output.wav"].writer = 0

C7_Witness == ~sampleExists /\ server = "failed"

\* two requests with the same inputs (and the same outcome of the engine)
SameInputs(r1, r2) ==
    /\ req[r1].method = req[r2].method /\ req[r1].path = req[r2].path
    /\ req[r1].text = req[r2].text /\ req[r1].language = req[r2].language
    /\ req[r1].filename = req[r2].filename
    /\ outcome[r1] = outcome[r2]

\* C8 as stated: two completed requests with the same inputs have the same
\* response, whatever was handled before them.
C8_Stateless ==
    \A r1, r2 \in Req :
        (Done(r1) /\ Done(r2) /\ SameInputs(r1, r2)) => resp[r1] = resp[r2]

\* C8 amended: home, success_page and generate_speech answer from their
\* own inputs (and the engine's outcome); two downloads of the same
\* filename are answered differently only for output.wav and only when a
\* generate request has begun to write it.
C8_StateOnlyThroughOutputFile ==
    \A r1, r2 \in Req :
        (Done(r1) /\ Done(r2) /\ SameInputs(r1, r2))
        => /\ Handler(r1) # "download_file" => resp[r1] = resp[r2]
           /\ (Handler(r1) = "download_file" /\ resp[r1] # resp[r2])
                => /\ req[r1].path[2] = "output.wav"
                   /\ \E g \in Req : /\ Handler(g) = "generate_speech"
                                     /\ pc[g] \in {"writing", "done"}
                                     /\ calls[g] # <<>>

C8_Witness ==
    \E r1, r2 \in Req :
        /\ Done(r1) /\ Done(r2) /\ SameInputs(r1, r2)
        /\ Handler(r1) = "download_file"
        /\ resp[r1].body = "File not found!" /\ resp[r2].type = "file"

\* the one engine call a successful generate makes
ExpectedCall(g) ==
    [text |-> req[g].text, speaker_wav |-> "sample.wav", language |-> req[g].language,
     file_path |-> <<"outputs", "output.wav">>]

\* C9 as stated: on success the engine was called exactly once with the
\* request's text and language, the reference sample and
\* outputs/output.wav, and the answer is a 303 redirect whose target is a
\* route that serves the audio file.
C9_RedirectToDownload ==
    \A g \in Req :
        (Done(g) /\ Handler(g) = "generate_speech" /\ outcome[g] = "returned")
        => /\ calls[g] = <<ExpectedCall(g)>>
           /\ resp[g].type = "redirect" /\ resp[g].status = 303
           /\ Route("GET", resp[g].url.path) = "download_file"

\* C9 amended: the 303 redirect targets /success?filename=output.wav, the
\* success page, whose link is the download route of output.wav.
C9_RedirectToSuccessPage ==
    \A g \in Req :
        (Done(g) /\ Handler(g) = "generate_speech" /\ outcome[g] = "returned")
        => /\ calls[g] = <<ExpectedCall(g)>>
           /\ resp[g].type = "redirect" /\ resp[g].status = 303
           /\ resp[g].url = [path |-> <<"success">>, filename |-> "output.wav"]
           /\ Route("GET", resp[g].url.path) = "success_page"
           /\ SuccessLink(resp[g].url.filename) = <<"download", "output.wav">>
           /\ Route("GET", SuccessLink(resp[g].url.filename)) = "download_file"

C9_Witness ==
    \E g \in Req :
        /\ Done(g) /\ Handler(g) = "generate_speech" /\ outcome[g] = "returned"
        /\ req[g].language = "fr" /\ req[g].text = "t2"
        /\ resp[g].status = 303

\* C10: a step changes a file under outputs/ only if the file is
\* output.wav and the step is the engine call of a generate request;
\* the steps of home, success_page and download_file change no file.
C10_OnlyGenerateWrites ==
    [][/\ \A f \in Files :
            fs'[f] # fs[f]
            => /\ f = "output.wav"
               /\ \E r \in Req : /\ Handler(r) = "generate_speech"
                                 /\ pc[r] \in {"synth", "writing"}
                                 /\ pc'[r] \in {"writing", "done"}
                                 /\ fs'[f].writer = r
       /\ \A r \in Req :
            (pc'[r] # pc[r] /\ HandlerNext(r) \in {"home", "success_page", "download_file"})
            => fs' = fs]_vars

C10_Witness ==
    /\ \E r \in Req : Done(r) /\ Handler(r) = "download_file" /\ req[r].path[2] = "nonexistent.wav"
    /\ \E r \in Req : Done(r) /\ Handler(r) = "generate_speech" /\ req[r].language = "fr"
                      /\ fs["output.wav"].writer = r
    /\ \E r \in Req : Done(r) /\ Handler(r) \in {"home", "success_page"}
    /\ fs["nonexistent.wav"] = Absent
====
